---- MODULE Spec2Model ----
(***************************************************************************)
(* Model of the boilerplate-context MCP server (boilerplates/mcp):         *)
(*   utils/repository.ts  repoTools: ensureRepo, getDirectoryStructure,    *)
(*                        readAgentsMd                                     *)
(*   mcpServer.ts         the resource read callback and the three tools   *)
(*   index.ts             startServer                                      *)
(* The server process, the working copy on disk, the remote repository and *)
(* the requests in flight are one state machine (Spec).  The directory     *)
(* walk and the line search are pure functions of their inputs; they are   *)
(* operators, applied by the specifications SpecTree and SpecSearch.       *)
(* SpecAll, SpecCall, SpecHttp and SpecPath follow get_all_contexts, the   *)
(* validation of a tool call, the Express routes and the paths the three   *)
(* operations build; SpecFair and SpecHttpFair are Spec and SpecHttp under *)
(* the scheduling of the event loop.                                       *)
(***************************************************************************)
EXTENDS Integers, Sequences, FiniteSets, TLC

\* ------------------------------------------------------------------ bounds
MaxReq == 2
MaxVer == 2
MaxNodes == 3
MaxDocLen == 4
MaxQueryLen == 2
MaxPost == 2

\* ----------------------------------------------------------- configuration
\* config.ts: enum PLATFORMS, in declaration order (Object.values)
PLATFORMS == <<"backend", "frontend", "mobile">>
PlatformSet == {PLATFORMS[i] : i \in 1..Len(PLATFORMS)}

Req == 1..MaxReq
\* the HTTP requests SpecHttp follows
Posts == 1..MaxPost
\* caller 0 is the ensureRepo() call of repoTools at startup; caller r >= 1 is
\* the ensureRepo() call made on behalf of request r
Callers == {0} \cup Req

Kinds == {"resource", "get_boilerplate_structure", "search_best_practices",
          "get_all_contexts"}
\* the names given to registerTool
ToolNames == Kinds \ {"resource"}

VARIABLES
  proc,          \* "starting" | "ensuring" | "listening" | "exited"
  exitCode,      \* -1 while the process runs, else the status of process.exit
  config,        \* config.ts config: repoUrl and repoDir ("" when not set)
  everListening, \* app.listen has been called
  dir,           \* the clone directory: "absent" | "partial" | "present"
  wcVer,         \* the commit checked out in the working copy (0: none)
  remoteVer,     \* the commit at the tip of the remote
  layout,        \* per platform, what the repository holds for it
  ens,           \* per caller, where its ensureRepo() call stands
  nOps,          \* per caller, the number of git operations its call issued
  req,           \* per request, the handler's state
  treeIn,        \* SpecTree: the platform subdirectory the reader is given
  files,         \* SpecTree: what getDirectoryStructure returned
  docOut,        \* SpecTree: what readAgentsMd returned
  treePc,        \* SpecTree: "off" | "ready" | "listed" | "read"
  content,       \* SpecSearch: the text of AGENTS.md
  query,         \* SpecSearch: the query argument
  searchOut,     \* SpecSearch: the result of search_best_practices
  searchPc,      \* SpecSearch: "off" | "ready" | "done"
  allDisk,       \* SpecAll: per platform, its subdirectory and AGENTS.md text
  allReads,      \* SpecAll: per platform, the readAgentsMd calls made
  allSettled,    \* SpecAll: the platforms whose read has settled, in order
  allParts,      \* SpecAll: per platform, the section its read resolved to
  allOut,        \* SpecAll: the result of get_all_contexts
  allPc,         \* SpecAll: "off" | "ready" | "reading" | "resolved" | "rejected"
  callTool,      \* SpecCall: the tool a tools/call request names
  callArgs,      \* SpecCall: its arguments
  callDisk,      \* SpecCall: what the working copy holds for a platform
  callOut,       \* SpecCall: the result of the call
  callRan,       \* SpecCall: the tool's handler has been run
  callTouched,   \* SpecCall: the platform values a path was built from
  callPc,        \* SpecCall: "off" | "ready" | "valid" | "done"
  http,          \* SpecHttp: per HTTP request, the route handler's state
  srvTransport,  \* SpecHttp: the request whose transport the McpServer is
                 \* connected to (0: none)
  pathCwd,       \* SpecPath: process.cwd(), a path string
  pathDir,       \* SpecPath: config.repoDir, a path string
  pathBase,      \* SpecPath: config.boilerplateDir, a path string
  pathPlatform,  \* SpecPath: the platform asked for
  pathOut,       \* SpecPath: per operation, the path it hands to fs or git,
                 \* as the operating system resolves it
  pathDone       \* SpecPath: the operations that have run

vars == <<proc, exitCode, config, everListening, dir, wcVer, remoteVer, layout,
          ens, nOps, req,
          treeIn, files, docOut, treePc, content, query, searchOut, searchPc,
          allDisk, allReads, allSettled, allParts, allOut, allPc,
          callTool, callArgs, callDisk, callOut, callRan, callTouched, callPc,
          http, srvTransport,
          pathCwd, pathDir, pathBase, pathPlatform, pathOut, pathDone>>

serverVars == <<proc, exitCode, config, everListening, dir, wcVer, remoteVer,
                layout, ens, nOps, req>>
treeVars == <<treeIn, files, docOut, treePc>>
searchVars == <<content, query, searchOut, searchPc>>
allVars == <<allDisk, allReads, allSettled, allParts, allOut, allPc>>
\* the variables of the specifications added to the first three
callVars == <<callTool, callArgs, callDisk, callOut, callRan, callTouched,
              callPc>>
httpVars == <<http, srvTransport>>
pathVars == <<pathCwd, pathDir, pathBase, pathPlatform, pathOut, pathDone>>
extraVars == <<allVars, callVars, httpVars, pathVars>>

\* ====================================================== Content Reader ===
\* Text is a sequence of one-character strings; a file name is text, and so
\* is a path, with "/" between its segments.
N_src == <<"s", "r", "c">>
N_git == <<".", "g", "i", "t">>
N_node_modules == <<"n", "o", "d", "e", "_", "m", "o", "d", "u", "l", "e", "s">>
N_AGENTS_md == <<"A", "G", "E", "N", "T", "S", ".", "m", "d">>

\* A platform subdirectory as the storage layer holds it: whether it exists,
\* and its entries (name, kind, index of the parent entry; 0 is the platform
\* subdirectory itself).  fs.readdir returns a directory's entries in index
\* order, which stands for the storage order.
NoTree == [exists |-> FALSE, nodes |-> <<>>]

\* fs.readdir(dir, {withFileTypes: true})
readdir(t, d) == SelectSeq([i \in 1..Len(t.nodes) |-> i],
                           LAMBDA i : t.nodes[i].parent = d)

\* (mutant) the test for node_modules is left out
skipEntryDotOnly(name) == Len(name) > 0 /\ Head(name) = "."

\* entry.name.startsWith('.') || entry.name === 'node_modules'
skipEntry(name) == (Len(name) > 0 /\ Head(name) = ".") \/ name = N_node_modules

\* (mutant) the entry's name is pushed without the prefix
pathJoinNameOnly(prefix, name) == name

\* path.join(prefix, entry.name) for a prefix that is "" or a relative path
pathJoin(prefix, name) == IF prefix = <<>> THEN name ELSE prefix \o <<"/">> \o name

RECURSIVE traverse(_, _, _), traverseEntries(_, _, _)
\* the for loop of traverse over the entries that are left
traverseEntries(t, entries, prefix) ==
  IF entries = <<>> THEN <<>>
  ELSE LET entry == t.nodes[Head(entries)]
           relativePath == pathJoin(prefix, entry.name)
       IN IF skipEntry(entry.name) THEN traverseEntries(t, Tail(entries), prefix)
          ELSE IF entry.isDir
               THEN <<relativePath \o <<"/">>>>
                      \o traverse(t, Head(entries), relativePath)
                      \o traverseEntries(t, Tail(entries), prefix)
               ELSE <<relativePath>> \o traverseEntries(t, Tail(entries), prefix)

traverse(t, d, prefix) == traverseEntries(t, readdir(t, d), prefix)

\* (mutant) a missing subdirectory lists as an empty one
getDirectoryStructureEmptyOnMissing(t) ==
  [ok |-> TRUE, err |-> <<>>,
   files |-> IF t.exists THEN traverse(t, 0, <<>>) ELSE <<>>]

\* getDirectoryStructure(platform) on the platform subdirectory t: the first
\* fs.readdir rejects with ENOENT when the subdirectory does not exist
getDirectoryStructure(t) ==
  IF ~t.exists THEN [ok |-> FALSE, err |-> <<"ENOENT">>, files |-> <<>>]
  ELSE [ok |-> TRUE, err |-> <<>>, files |-> traverse(t, 0, <<>>)]

\* fs.readFile(<platform subdirectory>/AGENTS.md, "utf-8"): data names the
\* text the file holds
fsReadFile(t, data) ==
  LET hits == SelectSeq(readdir(t, 0), LAMBDA i : t.nodes[i].name = N_AGENTS_md)
  IN IF ~t.exists \/ hits = <<>> THEN [ok |-> FALSE, err |-> "ENOENT", data |-> <<>>]
     ELSE IF t.nodes[hits[1]].isDir THEN [ok |-> FALSE, err |-> "EISDIR", data |-> <<>>]
     ELSE [ok |-> TRUE, err |-> "", data |-> data]

\* (mutant) the catch returns "" instead of throwing
readAgentsMdEmptyOnError(platform, t, data) ==
  LET r == fsReadFile(t, data)
  IN [ok |-> TRUE, text |-> IF r.ok THEN r.data ELSE <<>>, err |-> <<>>]

\* readAgentsMd(platform): the catch rethrows
\* new Error(`Failed to read AGENTS.md for ${platform}: ${error}`)
readAgentsMd(platform, t, data) ==
  LET r == fsReadFile(t, data)
  IN IF r.ok THEN [ok |-> TRUE, text |-> r.data, err |-> <<>>]
     ELSE [ok |-> FALSE, text |-> <<>>,
           err |-> <<"Failed to read AGENTS.md for ", platform, ": ", r.err>>]

\* ================================================================ Spec ===
\* What the repository holds for a platform under config.boilerplateDir:
\* no subdirectory, a subdirectory without AGENTS.md, or both.
LayoutKinds == {"nodir", "nodoc", "doc"}
\* The repositories the server is run against: every platform complete, and
\* one platform of each kind
Layouts ==
  {[p \in PlatformSet |-> "doc"],
   [p \in PlatformSet |->
      CASE p = "backend" -> "doc" [] p = "frontend" -> "nodoc" [] OTHER -> "nodir"]}

\* The platform subdirectory a layout kind stands for
TreeOf(kind) ==
  CASE kind = "nodir" -> NoTree
    [] kind = "nodoc" ->
         [exists |-> TRUE,
          nodes |-> <<[name |-> N_src, isDir |-> TRUE, parent |-> 0]>>]
    [] kind = "doc" ->
         [exists |-> TRUE,
          nodes |-> <<[name |-> N_git, isDir |-> TRUE, parent |-> 0],
                      [name |-> N_AGENTS_md, isDir |-> FALSE, parent |-> 0],
                      [name |-> N_src, isDir |-> TRUE, parent |-> 0],
                      [name |-> N_AGENTS_md, isDir |-> FALSE, parent |-> 3]>>]

\* What the clone directory holds for platform p right now; while a clone is
\* writing it (dir = "partial") nothing is checked out yet
CurTree(p) == IF dir = "present" THEN TreeOf(layout[p]) ELSE NoTree
\* (mutant) the text is read once and kept: the first commit's, whatever is
\* checked out now
CurDocAtStartup(p) == <<p, 1>>

\* The text of platform p's AGENTS.md at the checked-out commit
CurDoc(p) == <<p, wcVer>>

\* A request slot: the handler's position, and the response once it is sent
\* (ver: the commit whose AGENTS.md text the response carries, 0 if none;
\* got: the platforms whose AGENTS.md get_all_contexts has read so far)
NoReq == [kind |-> "none", platform |-> "backend", pc |-> "idle",
          status |-> "none", ver |-> 0, got |-> {}, err |-> <<>>,
          listing |-> <<>>]

\* process.env.REPO_URL ?? '' and process.env.REPO_DIR ?? '': set or not
NoConfig == [repoUrl |-> "", repoDir |-> ""]
Configs == [repoUrl : {"", "git@host:repo.git"}, repoDir : {"", "repo"}]

\* the state of a specification's variables while another one runs
TreeOff == treeIn = NoTree /\ files = <<>> /\ docOut = <<>> /\ treePc = "off"
SearchOff ==
  content = <<>> /\ query = <<>> /\ searchOut = <<>> /\ searchPc = "off"
AllOff ==
  /\ allDisk = <<>> /\ allReads = <<>> /\ allSettled = <<>>
  /\ allParts = <<>> /\ allOut = <<>> /\ allPc = "off"
CallOff ==
  /\ callTool = "none" /\ callArgs = <<>> /\ callDisk = "nodir"
  /\ callOut = <<>> /\ callRan = FALSE /\ callTouched = {} /\ callPc = "off"
HttpOff == http = <<>> /\ srvTransport = 0
PathOff ==
  /\ pathCwd = <<>> /\ pathDir = <<>> /\ pathBase = <<>> /\ pathPlatform = ""
  /\ pathOut = <<>> /\ pathDone = {}
ExtraOff == AllOff /\ CallOff /\ HttpOff /\ PathOff

Init ==
  /\ proc = "starting"
  /\ exitCode = -1
  /\ config \in Configs
  /\ everListening = FALSE
  /\ \E d \in {"absent", "present"} :
       /\ dir = d
       /\ wcVer = IF d = "present" THEN 1 ELSE 0
  /\ remoteVer = 1
  /\ layout \in Layouts
  /\ ens = [c \in Callers |-> "none"]
  /\ nOps = [c \in Callers |-> 0]
  /\ req = [r \in Req |-> NoReq]
  /\ TreeOff /\ SearchOff /\ ExtraOff


\* --------------------------------------------------------------- ensureRepo
\* ens[c]: "none" | "access" (fs.access pending) | "clone_wait" (git.clone
\* queued) | "cloning" | "pulling" (the git process runs) | "ok" (the git
\* operation succeeded and the call resolved) | "err_clone" | "err_pull" (the
\* operation failed and the call rejected with its error) | "swallowed_clone"
\* | "swallowed_pull" (the operation failed and the call resolved)
InFlight == {"access", "clone_wait", "cloning", "pulling"}

\* if (!exists) git.clone(url, dir) else simpleGit(dir).pull()
gitOpFor(exists) == IF ~exists THEN "clone" ELSE "pull"

\* (mutant) the catch logs and returns: the call resolves whatever git did
ensureRepoSwallows(g, gitOk) == TRUE

\* catch (error) { console.error(...); throw error; }: whichever operation g
\* ran, ensureRepo resolves exactly when it succeeded
ensureRepoResult(g, gitOk) == gitOk

\* fs.access(dir).then(() => true).catch(() => false): every rejection, not
\* only ENOENT, reads as "does not exist"
existsFrom(accessOk) == accessOk

\* repoTools: try { await ensureRepo() } catch { process.exit(1) }, then
\* getMcpServer builds the server and startServer calls app.listen
afterStartupEnsure(ok) == IF ok THEN "listening" ELSE "exited"

\* (mutant) a request whose ensureRepo() rejects takes the process down
afterRequestEnsureExits(ok, p) == IF ok THEN p ELSE "exited"

\* the resource callback's `await ensureRepo()`: a rejection rejects the
\* callback and nothing else; process.exit is called at startup only
afterRequestEnsure(ok, p) == p

\* `git` is one instance with maxConcurrentProcesses: 1, shared by every
\* clone: its scheduler runs a task only when none of its tasks is running
sharedGitFree(c) == \A d \in Callers \ {c} : ens[d] # "cloning"

\* simpleGit(dir) builds a new instance for every pull; the task is the only
\* one of that instance's scheduler, so it runs at once
pullInstanceFree(c) == TRUE

\* The end of caller c's ensureRepo() call after git operation g, and the
\* continuation that awaits it: at startup listen or exit; in the resource
\* callback go on to readAgentsMd, or reject the read
Finish(c, g, gitOk) ==
  LET ok == ensureRepoResult(g, gitOk) IN
  /\ ens' = [ens EXCEPT ![c] =
       IF ~ok THEN (IF g = "clone" THEN "err_clone" ELSE "err_pull")
       ELSE IF gitOk THEN "ok"
       ELSE (IF g = "clone" THEN "swallowed_clone" ELSE "swallowed_pull")]
  /\ IF c = 0
     THEN /\ proc' = afterStartupEnsure(ok)
          /\ exitCode' = IF afterStartupEnsure(ok) = "exited" THEN 1 ELSE exitCode
          /\ everListening' = (everListening \/ afterStartupEnsure(ok) = "listening")
          /\ req' = req
     ELSE /\ proc' = afterRequestEnsure(ok, proc)
          /\ exitCode' = IF afterRequestEnsure(ok, proc) = "exited" THEN 1
                         ELSE exitCode
          /\ UNCHANGED everListening
          /\ req' = [req EXCEPT ![c] =
               IF ok THEN [@ EXCEPT !.pc = "read"]
               ELSE [@ EXCEPT !.pc = "done", !.status = "error",
                                !.err = <<"git ", g>>]]

\* (mutant) only the URL is looked at
configMissingUrlOnly(c) == c.repoUrl = ""

\* if (!repoUrl || !repoDir) { console.error(...); process.exit(1); }
configMissing(c) == c.repoUrl = "" \/ c.repoDir = ""

\* index.ts startServer up to the first await inside repoTools
StartServer ==
  /\ proc = "starting"
  /\ IF configMissing(config)
     THEN /\ proc' = "exited" /\ exitCode' = 1
          /\ UNCHANGED ens
     ELSE /\ proc' = "ensuring" /\ exitCode' = exitCode
          /\ ens' = [ens EXCEPT ![0] = "access"]
  /\ UNCHANGED <<config, everListening, dir, wcVer, remoteVer, layout, nOps, req>>
  /\ UNCHANGED <<treeVars, searchVars, extraVars>>

\* fs.access(dir) settles and the branch issues the git operation; access
\* rejects when the directory is absent, and may reject when it is there
\* (EACCES on the path, EMFILE)
EnsureAccess(c) ==
  /\ proc \in {"ensuring", "listening"}
  /\ ens[c] = "access"
  /\ \E accessOk \in (IF dir = "absent" THEN {FALSE} ELSE BOOLEAN) :
     LET g == gitOpFor(existsFrom(accessOk))
     IN /\ nOps' = [nOps EXCEPT ![c] = @ + 1]
        /\ IF g = "clone"
           THEN ens' = [ens EXCEPT ![c] = "clone_wait"]
           ELSE /\ pullInstanceFree(c)
                /\ ens' = [ens EXCEPT ![c] = "pulling"]
  /\ UNCHANGED <<proc, exitCode, config, everListening, dir, wcVer, remoteVer,
                 layout, req>>
  /\ UNCHANGED <<treeVars, searchVars, extraVars>>

\* the shared instance's scheduler spawns `git clone url dir`; git refuses a
\* destination that exists and is not empty
CloneStart(c) ==
  /\ proc \in {"ensuring", "listening"}
  /\ ens[c] = "clone_wait"
  /\ sharedGitFree(c)
  /\ IF dir = "absent"
     THEN /\ dir' = "partial"
          /\ ens' = [ens EXCEPT ![c] = "cloning"]
          /\ UNCHANGED <<proc, exitCode, everListening, req>>
     ELSE /\ dir' = dir
          /\ Finish(c, "clone", FALSE)
  /\ UNCHANGED <<config, wcVer, remoteVer, layout, nOps>>
  /\ UNCHANGED <<treeVars, searchVars, extraVars>>

\* (mutant) the catch removes the clone directory so that the next call
\* clones afresh
dirAfterFailureRemoves(g, d) == "absent"

\* catch (error) { console.error(...); throw error; }: the program removes
\* nothing. After a failed clone the directory is what git leaves (git
\* removes the directory it created); after a failed pull it is as it was
dirAfterFailure(g, d) == IF g = "clone" /\ d = "partial" THEN "absent" ELSE d

\* (mutant) a pull checks out the repository's first commit
pullResultRewinds(gitOk, wc, remote) == IF gitOk THEN 1 ELSE wc

\* simpleGit(dir).pull(): the working copy moves to the remote's tip, which
\* is where it already is when the remote has not changed; a failed pull
\* leaves it as it was
pullResult(gitOk, wc, remote) == IF gitOk THEN remote ELSE wc

\* the clone process exits: the commit at the remote's tip is checked out, or
\* git removes the directory it created
CloneEnd(c) ==
  /\ proc \in {"ensuring", "listening"}
  /\ ens[c] = "cloning"
  /\ \E gitOk \in BOOLEAN :
       /\ dir' = IF gitOk THEN "present" ELSE dirAfterFailure("clone", dir)
       /\ wcVer' = IF gitOk THEN remoteVer ELSE 0
       /\ Finish(c, "clone", gitOk)
  /\ UNCHANGED <<config, remoteVer, layout, nOps>>
  /\ UNCHANGED <<treeVars, searchVars, extraVars>>

\* the pull process exits: the working copy moves to the remote's tip, or it
\* stays as it was (network down, conflict, no repository in the directory)
PullEnd(c) ==
  /\ proc \in {"ensuring", "listening"}
  /\ ens[c] = "pulling"
  /\ \E gitOk \in (IF dir = "present" THEN BOOLEAN ELSE {FALSE}) :
       /\ wcVer' = pullResult(gitOk, wcVer, remoteVer)
       /\ dir' = IF gitOk THEN dir ELSE dirAfterFailure("pull", dir)
       /\ Finish(c, "pull", gitOk)
  /\ UNCHANGED <<config, remoteVer, layout, nOps>>
  /\ UNCHANGED <<treeVars, searchVars, extraVars>>

\* ----------------------------------------------------------- mcpServer.ts
\* (mutant) no handler calls ensureRepo
callsEnsureNever(kind) == FALSE

\* Only the resource read callback starts with `await ensureRepo()`; the
\* three tool handlers go straight to the Content Reader
callsEnsure(kind) == kind = "resource"

\* A request reaches its handler: a resource read of platform p, or a call of
\* one of the tools (get_all_contexts takes no platform)
Arrive(r) ==
  /\ proc = "listening"
  /\ req[r].pc = "idle"
  /\ \E k \in Kinds :
     \E p \in (IF k = "get_all_contexts" THEN {PLATFORMS[1]} ELSE PlatformSet) :
       /\ req' = [req EXCEPT ![r] =
            [NoReq EXCEPT !.kind = k, !.platform = p,
                          !.pc = IF callsEnsure(k) THEN "ensure" ELSE "read"]]
       /\ ens' = [ens EXCEPT ![r] = IF callsEnsure(k) THEN "access" ELSE @]
  /\ UNCHANGED <<proc, exitCode, config, everListening, dir, wcVer, remoteVer,
                 layout, nOps>>
  /\ UNCHANGED <<treeVars, searchVars, extraVars>>

\* resource read callback after ensureRepo, and search_best_practices:
\* readAgentsMd(platform); a rejection becomes the request's error response
ReadDoc(r) ==
  /\ proc = "listening"
  /\ req[r].pc = "read"
  /\ req[r].kind \in {"resource", "search_best_practices"}
  /\ LET p == req[r].platform
         res == readAgentsMd(p, CurTree(p), CurDoc(p))
     IN req' = [req EXCEPT ![r] =
          IF res.ok
          THEN [@ EXCEPT !.pc = "done", !.status = "ok", !.ver = res.text[2]]
          ELSE [@ EXCEPT !.pc = "done", !.status = "error", !.err = res.err]]
  /\ UNCHANGED <<proc, exitCode, config, everListening, dir, wcVer, remoteVer,
                 layout, ens, nOps>>
  /\ UNCHANGED <<treeVars, searchVars, extraVars>>

\* get_boilerplate_structure: getDirectoryStructure(platform); the listing is
\* the text of the result, a rejection is answered as a tool error
GetStructure(r) ==
  /\ proc = "listening"
  /\ req[r].pc = "read"
  /\ req[r].kind = "get_boilerplate_structure"
  /\ LET p == req[r].platform
         res == getDirectoryStructure(CurTree(p))
     IN req' = [req EXCEPT ![r] =
          IF res.ok
          THEN [@ EXCEPT !.pc = "done", !.status = "ok", !.listing = res.files]
          ELSE [@ EXCEPT !.pc = "done", !.status = "error", !.err = res.err]]
  /\ UNCHANGED <<proc, exitCode, config, everListening, dir, wcVer, remoteVer,
                 layout, ens, nOps>>
  /\ UNCHANGED <<treeVars, searchVars, extraVars>>

\* get_all_contexts: Promise.all over config.platforms.map(readAgentsMd); the
\* reads settle in any order, the first rejection rejects the call, and the
\* call resolves when the last read has
ReadPart(r, p) ==
  /\ proc = "listening"
  /\ req[r].pc = "read"
  /\ req[r].kind = "get_all_contexts"
  /\ p \notin req[r].got
  /\ LET res == readAgentsMd(p, CurTree(p), CurDoc(p))
         got1 == req[r].got \cup {p}
     IN req' = [req EXCEPT ![r] =
          IF ~res.ok
          THEN [@ EXCEPT !.pc = "done", !.status = "error", !.err = res.err,
                         !.got = {}, !.ver = 0]
          ELSE IF got1 = PlatformSet
               THEN [@ EXCEPT !.pc = "done", !.status = "ok", !.got = got1,
                              !.ver = res.text[2]]
               ELSE [@ EXCEPT !.got = got1, !.ver = res.text[2]]]
  /\ UNCHANGED <<proc, exitCode, config, everListening, dir, wcVer, remoteVer,
                 layout, ens, nOps>>
  /\ UNCHANGED <<treeVars, searchVars, extraVars>>

\* app.post('/mcp'): server.connect or transport.handleRequest throws
\* before a header is written; the catch answers 500 with JSON-RPC error
\* -32603 and no handler has run
TransportFails(r) ==
  /\ proc = "listening"
  /\ req[r].pc = "idle"
  /\ req' = [req EXCEPT ![r] =
       [NoReq EXCEPT !.pc = "done", !.status = "error",
                     !.err = <<"Internal server error">>]]
  /\ UNCHANGED <<proc, exitCode, config, everListening, dir, wcVer, remoteVer,
                 layout, ens, nOps>>
  /\ UNCHANGED <<treeVars, searchVars, extraVars>>

\* the response has been sent; the slot serves the next request
Retire(r) ==
  /\ req[r].pc = "done"
  /\ req' = [req EXCEPT ![r] = NoReq]
  /\ ens' = [ens EXCEPT ![r] = "none"]
  /\ nOps' = [nOps EXCEPT ![r] = 0]
  /\ UNCHANGED <<proc, exitCode, config, everListening, dir, wcVer, remoteVer,
                 layout>>
  /\ UNCHANGED <<treeVars, searchVars, extraVars>>

\* ------------------------------------------------------------- environment
Quiet == /\ \A c \in Callers : ens[c] \notin InFlight
         /\ \A r \in Req : req[r].pc \in {"idle", "done"}

\* a commit is pushed to the remote
RemotePush ==
  /\ remoteVer < MaxVer
  /\ remoteVer' = remoteVer + 1
  /\ UNCHANGED <<proc, exitCode, config, everListening, dir, wcVer, layout, ens,
                 nOps, req>>
  /\ UNCHANGED <<treeVars, searchVars, extraVars>>

\* an operator removes the clone directory while the server is idle (the
\* server never deletes it; every ensureRepo() call re-checks fs.access(dir))
ExternalRemove ==
  /\ proc = "listening"
  /\ dir = "present"
  /\ Quiet
  /\ dir' = "absent"
  /\ wcVer' = 0
  /\ UNCHANGED <<proc, exitCode, config, everListening, remoteVer, layout, ens,
                 nOps, req>>
  /\ UNCHANGED <<treeVars, searchVars, extraVars>>

\* process.on('SIGINT', ...) => process.exit(0): the process is gone, and
\* with it every handler and every git call in flight
Sigint ==
  /\ proc = "listening"
  /\ proc' = "exited"
  /\ exitCode' = 0
  /\ req' = [r \in Req |-> NoReq]
  /\ ens' = [c \in Callers |-> IF c = 0 THEN ens[c] ELSE "none"]
  /\ nOps' = [c \in Callers |-> IF c = 0 THEN nOps[c] ELSE 0]
  /\ dir' = IF dir = "partial" THEN "absent" ELSE dir
  /\ UNCHANGED <<config, everListening, wcVer, remoteVer, layout>>
  /\ UNCHANGED <<treeVars, searchVars, extraVars>>

Next ==
  \/ StartServer
  \/ \E c \in Callers : EnsureAccess(c)
  \/ \E c \in Callers : CloneStart(c)
  \/ \E c \in Callers : CloneEnd(c)
  \/ \E c \in Callers : PullEnd(c)
  \/ \E r \in Req : Arrive(r)
  \/ \E r \in Req : ReadDoc(r)
  \/ \E r \in Req : GetStructure(r)
  \/ \E r \in Req : \E p \in PlatformSet : ReadPart(r, p)
  \/ \E r \in Req : TransportFails(r)
  \/ \E r \in Req : Retire(r)
  \/ RemotePush
  \/ ExternalRemove
  \/ Sigint

Spec == Init /\ [][Next]_vars

\* The server under the scheduling Node gives it: a continuation that is ready
\* runs (fs.access, fs.readdir and fs.readFile settle, and simple-git's
\* scheduler spawns a queued task once none is running).  Whether a spawned
\* git process ever exits is git's and the network's affair: simpleGit is
\* built with baseDir, binary and maxConcurrentProcesses only, so nothing in
\* the program ends a clone or a pull that does not end by itself.  Requests,
\* pushes and signals come when they come.
Fairness ==
  /\ WF_vars(StartServer)
  /\ \A c \in Callers : WF_vars(EnsureAccess(c)) /\ WF_vars(CloneStart(c))
  /\ \A r \in Req : /\ WF_vars(ReadDoc(r)) /\ WF_vars(GetStructure(r))
                    /\ WF_vars(\E p \in PlatformSet : ReadPart(r, p))

SpecFair == Init /\ [][Next]_vars /\ Fairness

\* ============================================================ SpecTree ===
\* The Content Reader on every platform subdirectory of at most MaxNodes
\* entries: getDirectoryStructure and readAgentsMd are applied to it.
TreeNames == {N_src, N_git, N_node_modules, N_AGENTS_md}

NodesOfSize(n) ==
  {ns \in [1..n -> [name : TreeNames, isDir : BOOLEAN, parent : 0..(n - 1)]] :
     /\ \A i \in 1..n : /\ ns[i].parent < i
                        /\ ns[i].parent # 0 => ns[ns[i].parent].isDir
     /\ \A i, j \in 1..n :
          (i < j /\ ns[i].parent = ns[j].parent) => ns[i].name # ns[j].name}

TreeSet == {NoTree} \cup
           UNION {{[exists |-> TRUE, nodes |-> ns] : ns \in NodesOfSize(n)} :
                  n \in 0..MaxNodes}

\* the texts AGENTS.md may hold: empty, or not
DocTexts == {<<>>, <<"x">>}

ServerOff ==
  /\ proc = "off" /\ exitCode = -1 /\ config = NoConfig /\ everListening = FALSE
  /\ dir = "absent" /\ wcVer = 0 /\ remoteVer = 1
  /\ layout = [p \in PlatformSet |-> "nodir"]
  /\ ens = [c \in Callers |-> "none"]
  /\ nOps = [c \in Callers |-> 0]
  /\ req = [r \in Req |-> NoReq]

InitTree ==
  /\ ServerOff
  /\ treeIn \in TreeSet
  /\ files = <<>> /\ docOut = <<>> /\ treePc = "ready"
  /\ SearchOff /\ ExtraOff

ListTree ==
  /\ treePc = "ready"
  /\ files' = getDirectoryStructure(treeIn)
  /\ treePc' = "listed"
  /\ UNCHANGED <<treeIn, docOut, serverVars, searchVars, extraVars>>

ReadTreeDoc ==
  /\ treePc = "ready"
  /\ \E p \in PlatformSet : \E data \in DocTexts :
       docOut' = readAgentsMd(p, treeIn, data)
  /\ treePc' = "read"
  /\ UNCHANGED <<treeIn, files, serverVars, searchVars, extraVars>>

NextTree == ListTree \/ ReadTreeDoc

SpecTree == InitTree /\ [][NextTree]_vars

\* ============================================================= schemas ===
\* An argument value as the JSON of a tools/call request carries it: a
\* string (val: its text), a number, or no value at all
ArgTypes == {"string", "number", "undefined"}
StrArg(v) == [type |-> "string", val |-> v]
NumArg(v) == [type |-> "number", val |-> v]
NoArg(v) == [type |-> "undefined", val |-> v]

\* (mutant) the platform argument is any string
zEnumAnyString(values, v) == v.type = "string"

\* z.enum(values): a string that is one of the values
zEnum(values, v) == v.type = "string" /\ v.val \in values

\* z.string(): any string, the empty one included
zString(v) == v.type = "string"

\* z.object({ platform: z.enum(config.platforms) })
GET_BOILERPLATE_STRUCTURE_SCHEMA(args) == zEnum(PlatformSet, args.platform)

\* GET_BOILERPLATE_STRUCTURE_SCHEMA.extend({ query: z.string() })
SEARCH_BEST_PRACTICES_SCHEMA(args) ==
  GET_BOILERPLATE_STRUCTURE_SCHEMA(args) /\ zString(args.query)

\* z.object({}): unknown keys are stripped, nothing is required
GET_ALL_CONTEXTS_SCHEMA(args) == TRUE

\* ========================================================== SpecSearch ===
\* search_best_practices on every document of at most MaxDocLen characters
\* and every query of at most MaxQueryLen characters, and on the sample
\* document with the sample queries.
Alphabet == {"a", "A", "b", "\n"}

TextsUpTo(n) == UNION {[1..k -> Alphabet] : k \in 0..n}

\* "alpha\nbeta\nGAMMA\ndelta\n"
SampleDoc == <<"a", "l", "p", "h", "a", "\n", "b", "e", "t", "a", "\n",
               "G", "A", "M", "M", "A", "\n", "d", "e", "l", "t", "a", "\n">>
\* "gamma" and "zzz"
Q_gamma == <<"g", "a", "m", "m", "a">>
Q_zzz == <<"z", "z", "z">>

\* String.prototype.toLowerCase, on the letters the documents use
lowerChar(c) ==
  CASE c = "A" -> "a" [] c = "B" -> "b" [] c = "G" -> "g" [] c = "M" -> "m"
    [] OTHER -> c
\* (mutant) the text is compared as it is
toLowerCaseNone(text) == text
toLowerCase(text) == [i \in 1..Len(text) |-> lowerChar(text[i])]

\* content.split('\n'): a text of k separators has k + 1 lines
RECURSIVE split(_, _)
split(text, sep) ==
  IF text = <<>> THEN << <<>> >>
  ELSE LET rest == split(Tail(text), sep)
       IN IF Head(text) = sep THEN << <<>> >> \o rest
          ELSE << <<Head(text)>> \o Head(rest) >> \o Tail(rest)

\* (mutant) the empty string is contained in nothing
includesNonEmpty(text, q) ==
  /\ q # <<>>
  /\ \E i \in 0..(Len(text) - Len(q)) : SubSeq(text, i + 1, i + Len(q)) = q

\* String.prototype.includes
includes(text, q) ==
  \E i \in 0..(Len(text) - Len(q)) : SubSeq(text, i + 1, i + Len(q)) = q

\* (mutant) no clipping: the second argument as it is
MathSecond(a, b) == b
MathMax(a, b) == IF a >= b THEN a ELSE b
MathMin(a, b) == IF a <= b THEN a ELSE b

\* Array.prototype.slice(start, end), indices from 0, end excluded; a
\* negative index counts from the end, and both are clamped to the length
slice(seq, start, end) ==
  LET n == Len(seq)
      from == IF start < 0 THEN (IF n + start < 0 THEN 0 ELSE n + start)
              ELSE (IF start > n THEN n ELSE start)
      to == IF end < 0 THEN (IF n + end < 0 THEN 0 ELSE n + end)
            ELSE (IF end > n THEN n ELSE end)
  IN IF from >= to THEN <<>> ELSE SubSeq(seq, from + 1, to)

\* Array.prototype.join
RECURSIVE join(_, _)
join(seq, sep) ==
  IF seq = <<>> THEN <<>>
  ELSE IF Len(seq) = 1 THEN seq[1]
  ELSE seq[1] \o <<sep>> \o join(Tail(seq), sep)

\* (mutant) the label is the index from 0
lineLabelFromZero(index) == index

\* the label of a match: `--- Line ${index + 1} ---`
lineLabel(index) == index + 1

\* the context of the match at lines[index] (index from 0)
contextOf(lines, index) ==
  LET start == MathMax(0, index - 2)
      end == MathMin(Len(lines), index + 3)
  IN join(slice(lines, start, end), "\n")

\* line.toLowerCase().includes(queryLower)
lineMatches(line, queryLower) == includes(toLowerCase(line), queryLower)

\* lines.forEach((line, index) => ...) from index on: the matches pushed
RECURSIVE forEachLine(_, _, _)
forEachLine(lines, index, queryLower) ==
  IF index >= Len(lines) THEN <<>>
  ELSE (IF lineMatches(lines[index + 1], queryLower)
        THEN <<[label |-> lineLabel(index), context |-> contextOf(lines, index)]>>
        ELSE <<>>)
       \o forEachLine(lines, index + 1, queryLower)

\* (mutant) the text always starts with "Found ..."
resultFormAlwaysFound(n) == "Found"

\* matches.length > 0 ? `Found ${matches.length} matches for ...`
\*                    : `No matches found for ...`
resultForm(n) == IF n > 0 THEN "Found" ELSE "No matches found"

\* the handler of search_best_practices once readAgentsMd has resolved; the
\* result carries no isError
searchBestPractices(platform, text, q) ==
  LET lines == split(text, "\n")
      matches == forEachLine(lines, 0, toLowerCase(q))
  IN [form |-> resultForm(Len(matches)), isError |-> FALSE,
      n |-> Len(matches), query |-> q, platform |-> platform,
      blocks |-> matches]

\* the answer to a call whose arguments the input schema refuses: the
\* handler is not run
invalidParams(platform, q) ==
  [form |-> "Invalid arguments", isError |-> TRUE, n |-> 0, query |-> q,
   platform |-> platform, blocks |-> <<>>]

InitSearch ==
  /\ ServerOff /\ TreeOff /\ ExtraOff
  /\ content \in TextsUpTo(MaxDocLen) \cup {SampleDoc}
  /\ query \in TextsUpTo(MaxQueryLen) \cup {Q_gamma, Q_zzz}
  /\ searchOut = <<>> /\ searchPc = "ready"

Search ==
  /\ searchPc = "ready"
  /\ \E p \in PlatformSet :
       searchOut' =
         IF SEARCH_BEST_PRACTICES_SCHEMA([platform |-> StrArg(p),
                                           query |-> StrArg(query)])
         THEN searchBestPractices(p, content, query)
         ELSE invalidParams(p, query)
  /\ searchPc' = "done"
  /\ UNCHANGED <<content, query, serverVars, treeVars, extraVars>>

NextSearch == Search

SpecSearch == InitSearch /\ [][NextSearch]_vars

\* ============================================================= SpecAll ===
\* get_all_contexts on every working copy in which each platform has its
\* AGENTS.md or lacks it: the three reads are started together and settle in
\* any order.
AllDisks ==
  [PlatformSet -> [kind : {"doc", "nodoc"}, text : DocTexts \cup {<<"y", "\n">>}]]

\* platform.toUpperCase()
toUpperCase(platform) ==
  CASE platform = "backend" -> "BACKEND"
    [] platform = "frontend" -> "FRONTEND"
    [] platform = "mobile" -> "MOBILE"

\* `## ${platform.toUpperCase()} AGENTS.md\n\n${content}`
sectionOf(platform, text) ==
  <<"## ", toUpperCase(platform), " AGENTS.md\n\n">> \o text

\* (mutant) the sections in the order the reads settled
contextsInSettleOrder(settled, parts) ==
  [i \in 1..Len(settled) |-> parts[settled[i]]]

\* Promise.all(config.platforms.map(...)): the values in the order of the
\* input array, whatever the order the promises settled in
contextsInOrder(settled, parts) ==
  [i \in 1..Len(PLATFORMS) |-> parts[PLATFORMS[i]]]

\* (mutant) Promise.allSettled: a rejected read is no reason to reject
promiseAllNeverRejects(res) == FALSE

\* Promise.all: the first promise to reject rejects the whole, with its
\* reason; the mapper has no catch, so a rejected readAgentsMd is a rejected
\* promise
promiseAllRejects(res) == ~res.ok

\* contexts.join('\n\n---\n\n')
allContextsText(contexts) == join(contexts, "\n\n---\n\n")

InitAll ==
  /\ ServerOff /\ TreeOff /\ SearchOff /\ CallOff /\ HttpOff /\ PathOff
  /\ allDisk \in AllDisks
  /\ allReads = [p \in PlatformSet |-> 0]
  /\ allSettled = <<>>
  /\ allParts = [p \in PlatformSet |-> <<>>]
  /\ allOut = <<>>
  /\ allPc = "ready"

\* the handler runs: map calls readAgentsMd for every platform, in order,
\* before the first await returns control
AllStart ==
  /\ allPc = "ready"
  /\ allReads' = [p \in PlatformSet |-> allReads[p] + 1]
  /\ allPc' = "reading"
  /\ UNCHANGED <<allDisk, allSettled, allParts, allOut>>
  /\ UNCHANGED <<serverVars, treeVars, searchVars, callVars, httpVars, pathVars>>

\* the read of platform p settles; the first rejection rejects Promise.all,
\* and the last fulfilment resolves it and the handler returns the text
AllSettle(p) ==
  /\ allPc \in {"reading", "rejected"}
  /\ allReads[p] > 0
  /\ \A i \in 1..Len(allSettled) : allSettled[i] # p
  /\ LET res == readAgentsMd(p, TreeOf(allDisk[p].kind), allDisk[p].text)
         settled1 == Append(allSettled, p)
         parts1 == [allParts EXCEPT ![p] = sectionOf(p, res.text)]
     IN /\ allSettled' = settled1
        /\ IF allPc = "rejected"
           THEN UNCHANGED <<allParts, allOut, allPc>>
           ELSE IF promiseAllRejects(res)
           THEN /\ allPc' = "rejected"
                /\ allOut' = res.err
                /\ UNCHANGED allParts
           ELSE /\ allParts' = parts1
                /\ IF Len(settled1) = Len(PLATFORMS)
                   THEN /\ allPc' = "resolved"
                        /\ allOut' = allContextsText(contextsInOrder(settled1, parts1))
                   ELSE UNCHANGED <<allOut, allPc>>
  /\ UNCHANGED <<allDisk, allReads>>
  /\ UNCHANGED <<serverVars, treeVars, searchVars, callVars, httpVars, pathVars>>

NextAll == AllStart \/ \E p \in PlatformSet : AllSettle(p)

SpecAll == InitAll /\ [][NextAll]_vars

\* ============================================================ SpecCall ===
\* One tools/call request: its arguments are checked against the tool's
\* inputSchema, and only a call that passes reaches the handler.
PlatformArgs ==
  {StrArg(v) : v \in PlatformSet \cup {"desktop", "Backend", ""}}
    \cup {NumArg(""), NoArg("")}
QueryArgs == {StrArg(<<>>), StrArg(<<"a">>), NumArg(<<>>), NoArg(<<>>)}

\* registerTool(name, { inputSchema }, handler): the schema of each tool
inputSchemaOf(tool, args) ==
  CASE tool = "get_boilerplate_structure" -> GET_BOILERPLATE_STRUCTURE_SCHEMA(args)
    [] tool = "search_best_practices" -> SEARCH_BEST_PRACTICES_SCHEMA(args)
    [] tool = "get_all_contexts" -> GET_ALL_CONTEXTS_SCHEMA(args)

\* path.join(dir, config.boilerplateDir, platform): the subdirectory a
\* platform value names; none exists for a value that is no platform
DiskFor(platform) ==
  IF platform \in PlatformSet THEN TreeOf(callDisk) ELSE NoTree

\* the platform values a handler builds a path from
platformsUsed(tool, args) ==
  IF tool = "get_all_contexts" THEN PlatformSet ELSE {args.platform.val}

\* the handler of each tool, as the result the call is answered with
handlerOf(tool, args) ==
  CASE tool = "get_boilerplate_structure" ->
         LET res == getDirectoryStructure(DiskFor(args.platform.val))
         IN [form |-> IF res.ok THEN "File structure" ELSE "error",
             isError |-> ~res.ok]
    [] tool = "search_best_practices" ->
         LET res == readAgentsMd(args.platform.val,
                                 DiskFor(args.platform.val), <<"a">>)
         IN IF res.ok
            THEN LET out == searchBestPractices(args.platform.val, res.text,
                                                args.query.val)
                 IN [form |-> out.form, isError |-> out.isError]
            ELSE [form |-> "error", isError |-> TRUE]
    [] tool = "get_all_contexts" ->
         LET bad == {q \in PlatformSet :
                       ~readAgentsMd(q, DiskFor(q), <<"a">>).ok}
         IN [form |-> IF bad = {} THEN "contexts" ELSE "error",
             isError |-> bad # {}]

InitCall ==
  /\ ServerOff /\ TreeOff /\ SearchOff /\ AllOff /\ HttpOff /\ PathOff
  /\ callTool \in ToolNames
  /\ callArgs \in [platform : PlatformArgs, query : QueryArgs]
  /\ callDisk \in LayoutKinds
  /\ callOut = <<>> /\ callRan = FALSE /\ callTouched = {}
  /\ callPc = "ready"

\* the arguments are parsed with the tool's inputSchema before the handler
\* is looked at
ValidateCall ==
  /\ callPc = "ready"
  /\ IF inputSchemaOf(callTool, callArgs)
     THEN callPc' = "valid" /\ callOut' = callOut
     ELSE /\ callPc' = "done"
          /\ callOut' = [form |-> "Invalid arguments", isError |-> TRUE]
  /\ UNCHANGED <<callTool, callArgs, callDisk, callRan, callTouched>>
  /\ UNCHANGED <<serverVars, treeVars, searchVars, allVars, httpVars, pathVars>>

\* the handler runs on the parsed arguments
RunHandler ==
  /\ callPc = "valid"
  /\ callRan' = TRUE
  /\ callTouched' = platformsUsed(callTool, callArgs)
  /\ callOut' = handlerOf(callTool, callArgs)
  /\ callPc' = "done"
  /\ UNCHANGED <<callTool, callArgs, callDisk>>
  /\ UNCHANGED <<serverVars, treeVars, searchVars, allVars, httpVars, pathVars>>

NextCall == ValidateCall \/ RunHandler

SpecCall == InitCall /\ [][NextCall]_vars

\* ============================================================ SpecHttp ===
\* app.ts createApp: the routes of the Express app, and the one McpServer
\* that every POST /mcp connects a new transport to.
Verbs == {"GET", "POST", "DELETE", "PUT", "PATCH"}
Paths == {"/mcp", "/health"}

\* http[r].pc: "idle" | "connecting" (await server.connect) | "handling"
\* (await transport.handleRequest) | "streaming" (the close listener is
\* registered, the answer is awaited) | "closing" (the response has ended,
\* its 'close' event is due) | "done"
\* http[r].tr, the transport of the request: "none" | "created" | "open" |
\* "closed"
NoHttp == [verb |-> "GET", path |-> "/mcp", pc |-> "idle", status |-> 0,
           code |-> 0, body |-> "none", tr |-> "none", ran |-> FALSE,
           fault |-> FALSE]

\* the handler Express finds for a request: app.post('/mcp'),
\* app.get('/health'), app.get('/mcp'), app.delete('/mcp'), or none
routeFor(verb, path) ==
  CASE path = "/mcp" /\ verb = "POST" -> "post_mcp"
    [] path = "/health" /\ verb = "GET" -> "get_health"
    [] path = "/mcp" /\ verb = "GET" -> "get_mcp"
    [] path = "/mcp" /\ verb = "DELETE" -> "delete_mcp"
    [] OTHER -> "none"

\* what the synchronous routes answer; a request no route matches gets the
\* framework's 404 page
answerOf(route) ==
  CASE route = "get_health" -> [status |-> 200, code |-> 0, body |-> "health"]
    [] route = "get_mcp" -> [status |-> 405, code |-> -32000, body |-> "jsonrpc error"]
    [] route = "delete_mcp" -> [status |-> 405, code |-> -32000, body |-> "jsonrpc error"]
    [] OTHER -> [status |-> 404, code |-> 0, body |-> "html"]

\* catch (error) { if (!res.headersSent) res.status(500).json(...) }
internalError == [status |-> 500, code |-> -32603, body |-> "jsonrpc error"]

InitHttp ==
  /\ ServerOff /\ TreeOff /\ SearchOff /\ AllOff /\ CallOff /\ PathOff
  /\ http = [r \in Posts |-> NoHttp]
  /\ srvTransport = 0

\* a request arrives and Express dispatches it; POST /mcp creates its
\* transport and starts to connect, every other route answers at once
HttpArrive(r) ==
  /\ http[r].pc = "idle"
  /\ \E verb \in Verbs : \E path \in Paths :
       LET route == routeFor(verb, path)
           a == answerOf(route)
       IN http' = [http EXCEPT ![r] =
            IF route = "post_mcp"
            THEN [NoHttp EXCEPT !.verb = verb, !.path = path,
                                !.pc = "connecting", !.tr = "created"]
            ELSE [NoHttp EXCEPT !.verb = verb, !.path = path, !.pc = "done",
                                !.status = a.status, !.code = a.code,
                                !.body = a.body]]
  /\ UNCHANGED srvTransport
  /\ UNCHANGED <<serverVars, treeVars, searchVars, allVars, callVars, pathVars>>

\* await server.connect(transport) on the shared server.  When the server
\* is still connected to another request's transport the SDK either takes
\* the new transport in its place or throws, depending on its version; the
\* throw lands in the catch
Connect(r) ==
  /\ http[r].pc = "connecting"
  /\ \E takes \in (IF srvTransport = 0 THEN {TRUE} ELSE BOOLEAN) :
       IF takes
       THEN /\ srvTransport' = r
            /\ http' = [http EXCEPT ![r].pc = "handling", ![r].tr = "open"]
       ELSE /\ srvTransport' = srvTransport
            /\ http' = [http EXCEPT ![r].pc = "done",
                                    ![r].status = internalError.status,
                                    ![r].code = internalError.code,
                                    ![r].body = internalError.body]
  /\ UNCHANGED <<serverVars, treeVars, searchVars, allVars, callVars, pathVars>>

\* await transport.handleRequest(req, res, req.body): the transport hands
\* the message to the server, whose handler starts, and the close listener
\* is registered; or it throws before any header is written
HandleRequest(r) ==
  /\ http[r].pc = "handling"
  /\ \E throws \in BOOLEAN :
       http' = [http EXCEPT ![r] =
         IF throws
         THEN [@ EXCEPT !.pc = "done", !.fault = TRUE,
                        !.status = internalError.status,
                        !.code = internalError.code,
                        !.body = internalError.body]
         ELSE [@ EXCEPT !.pc = "streaming", !.ran = TRUE]]
  /\ UNCHANGED srvTransport
  /\ UNCHANGED <<serverVars, treeVars, searchVars, allVars, callVars, pathVars>>

\* the handler's result is sent on the request's transport and the response
\* ends
Respond(r) ==
  /\ http[r].pc = "streaming"
  /\ http[r].tr = "open"
  /\ http' = [http EXCEPT ![r].pc = "closing", ![r].status = 200,
                          ![r].body = "answer"]
  /\ UNCHANGED srvTransport
  /\ UNCHANGED <<serverVars, treeVars, searchVars, allVars, callVars, pathVars>>

\* the transport was closed under the request: its response stream ends
\* without the answer
Cut(r) ==
  /\ http[r].pc = "streaming"
  /\ http[r].tr = "closed"
  /\ http' = [http EXCEPT ![r].pc = "closing", ![r].status = 200,
                          ![r].body = "cut"]
  /\ UNCHANGED srvTransport
  /\ UNCHANGED <<serverVars, treeVars, searchVars, allVars, callVars, pathVars>>

\* res.on('close', () => { transport.close(); server.close(); }): the
\* request's transport is closed, and so is whichever transport the shared
\* server is connected to
OnClose(r) ==
  /\ http[r].pc = "closing"
  /\ http' = [q \in Posts |->
       IF q = r THEN [http[q] EXCEPT !.pc = "done", !.tr = "closed"]
       ELSE IF q = srvTransport THEN [http[q] EXCEPT !.tr = "closed"]
       ELSE http[q]]
  /\ srvTransport' = 0
  /\ UNCHANGED <<serverVars, treeVars, searchVars, allVars, callVars, pathVars>>

\* the client goes away while transport.handleRequest is still pending: the
\* response emits 'close' with no listener on it yet; handleRequest then
\* settles and res.on('close', ...) registers a listener for an event that
\* has already been emitted, so the cleanup never runs
CloseEarly(r) ==
  /\ http[r].pc = "handling"
  /\ http' = [http EXCEPT ![r].pc = "done", ![r].fault = TRUE,
                          ![r].body = "aborted"]
  /\ UNCHANGED srvTransport
  /\ UNCHANGED <<serverVars, treeVars, searchVars, allVars, callVars, pathVars>>

NextHttp ==
  \/ \E r \in Posts : HttpArrive(r)
  \/ \E r \in Posts : Connect(r)
  \/ \E r \in Posts : HandleRequest(r)
  \/ \E r \in Posts : Respond(r)
  \/ \E r \in Posts : Cut(r)
  \/ \E r \in Posts : OnClose(r)
  \/ \E r \in Posts : CloseEarly(r)

SpecHttp == InitHttp /\ [][NextHttp]_vars

\* The app under the scheduling Node gives it: an awaited connect or
\* handleRequest settles, a result that is ready is written, a stream that
\* was closed ends, and a 'close' event that is due is delivered to the
\* listeners registered by then.  When requests arrive and whether a client
\* goes away is the clients' affair.
HttpFairness ==
  \A r \in Posts :
    /\ WF_vars(Connect(r)) /\ WF_vars(HandleRequest(r))
    /\ WF_vars(Respond(r)) /\ WF_vars(Cut(r)) /\ WF_vars(OnClose(r))

SpecHttpFair == InitHttp /\ [][NextHttp]_vars /\ HttpFairness

\* ============================================================ SpecPath ===
\* The paths that ensureRepo, getDirectoryStructure and readAgentsMd build
\* from process.cwd(), config.repoDir, config.boilerplateDir and the
\* platform, for relative and absolute values of REPO_DIR.  A path string is
\* a sequence of "/" and segment names; what fs and git get is the string,
\* which the operating system resolves against the working directory.
PathCwds == {<<"/">>, <<"/", "app">>, <<"/", "srv", "/", "mcp">>}
RepoDirs == {<<"repo">>, <<".", "/", "repo">>, <<"data", "/", "repo">>,
             <<"..", "/", "repo">>, <<"/", "repo">>,
             <<"/", "data", "/", "repo">>}
BoilerplateDirs == {<<>>, <<"boilerplates">>}
PathOps == {"ensure", "list", "read"}
NoPath == [abs |-> FALSE, segs |-> <<>>]

\* a path string is absolute when it starts with "/"
isAbsolute(s) == s # <<>> /\ s[1] = "/"

\* the segments of a path string: what is between its "/"
segmentsOf(s) == SelectSeq(s, LAMBDA t : t # "/")

RECURSIVE normalizeSegs(_, _, _)
\* path.normalize on the segments: "." is dropped, ".." takes the segment
\* before it away (at the root it is dropped, at the start of a relative
\* path it stays)
normalizeSegs(segs, abs, acc) ==
  IF segs = <<>> THEN acc
  ELSE LET h == Head(segs) IN
       IF h = "." THEN normalizeSegs(Tail(segs), abs, acc)
       ELSE IF h = ".."
       THEN IF acc # <<>> /\ acc[Len(acc)] # ".."
            THEN normalizeSegs(Tail(segs), abs, SubSeq(acc, 1, Len(acc) - 1))
            ELSE IF abs THEN normalizeSegs(Tail(segs), abs, acc)
            ELSE normalizeSegs(Tail(segs), abs, Append(acc, h))
       ELSE normalizeSegs(Tail(segs), abs, Append(acc, h))

RECURSIVE joinedString(_)
\* the non-empty arguments of path.join with "/" between them
joinedString(parts) ==
  IF parts = <<>> THEN <<>>
  ELSE LET rest == joinedString(Tail(parts)) IN
       IF Head(parts) = <<>> THEN rest
       ELSE IF rest = <<>> THEN Head(parts)
       ELSE Head(parts) \o <<"/">> \o rest

\* path.join(...parts): the arguments are concatenated and the result is
\* normalized; an absolute argument after the first is not a new start
pathJoinAll(parts) ==
  LET s == joinedString(parts)
  IN [abs |-> isAbsolute(s),
      segs |-> normalizeSegs(segmentsOf(s), isAbsolute(s), <<>>)]

\* the file the operating system opens for path p in a process whose working
\* directory is cwd (what path.resolve(cwd, p) computes)
pathResolve(cwd, p) ==
  IF p.abs THEN p
  ELSE [abs |-> TRUE, segs |-> normalizeSegs(segmentsOf(cwd) \o p.segs, TRUE, <<>>)]

\* fs.access(dir), git.clone(url, dir) run by a git whose baseDir is
\* process.cwd(), and simpleGit(dir): all take dir as it is configured
ensureRepoPath(cwd, d) == pathResolve(cwd, pathJoinAll(<<d>>))

\* const dirPath = path.join(process.cwd(), dir, config.boilerplateDir, platform)
dirPath(cwd, d, base, platform) ==
  pathResolve(cwd, pathJoinAll(<<cwd, d, base, <<platform>>>>))

\* const filePath = path.join(dir, config.boilerplateDir, platform, "AGENTS.md")
filePath(cwd, d, base, platform) ==
  pathResolve(cwd, pathJoinAll(<<d, base, <<platform>>, <<"AGENTS.md">>>>))

InitPath ==
  /\ ServerOff /\ TreeOff /\ SearchOff /\ AllOff /\ CallOff /\ HttpOff
  /\ pathCwd \in PathCwds
  /\ pathDir \in RepoDirs
  /\ pathBase \in BoilerplateDirs
  /\ pathPlatform \in PlatformSet
  /\ pathOut = [o \in PathOps |-> NoPath]
  /\ pathDone = {}

\* ensureRepo() checks, clones or pulls the clone directory
PathEnsure ==
  /\ "ensure" \notin pathDone
  /\ pathOut' = [pathOut EXCEPT !["ensure"] = ensureRepoPath(pathCwd, pathDir)]
  /\ pathDone' = pathDone \cup {"ensure"}
  /\ UNCHANGED <<pathCwd, pathDir, pathBase, pathPlatform>>
  /\ UNCHANGED <<serverVars, treeVars, searchVars, allVars, callVars, httpVars>>

\* getDirectoryStructure(platform) starts its traversal
PathList ==
  /\ "list" \notin pathDone
  /\ pathOut' = [pathOut EXCEPT !["list"] =
                   dirPath(pathCwd, pathDir, pathBase, pathPlatform)]
  /\ pathDone' = pathDone \cup {"list"}
  /\ UNCHANGED <<pathCwd, pathDir, pathBase, pathPlatform>>
  /\ UNCHANGED <<serverVars, treeVars, searchVars, allVars, callVars, httpVars>>

\* readAgentsMd(platform) reads the file
PathRead ==
  /\ "read" \notin pathDone
  /\ pathOut' = [pathOut EXCEPT !["read"] =
                   filePath(pathCwd, pathDir, pathBase, pathPlatform)]
  /\ pathDone' = pathDone \cup {"read"}
  /\ UNCHANGED <<pathCwd, pathDir, pathBase, pathPlatform>>
  /\ UNCHANGED <<serverVars, treeVars, searchVars, allVars, callVars, httpVars>>

NextPath == PathEnsure \/ PathList \/ PathRead

SpecPath == InitPath /\ [][NextPath]_vars

\* ============================================================== claims ===
GitRunning == {c \in Callers : ens[c] \in {"cloning", "pulling"}}
ToolKinds == Kinds \ {"resource"}

\* C1: at any moment at most one git clone/pull process runs against the
\* working copy, whatever the number and interleaving of ensureRepo() calls.
\* The code runs every pull on an instance of its own, so it fails.
C1_AtMostOneGitOperation == Cardinality(GitRunning) <= 1

\* C2: when the directory exists and the pull fails, ensureRepo() does not
\* raise to its caller: the process keeps running, the working copy is as it
\* was, and the calling operation goes on to read the cached content.  The
\* code rethrows, so it fails.
C2_PullFailureNonFatal ==
  /\ ens[0] = "err_pull" => proc # "exited" \/ exitCode = 0
  /\ \A r \in Req : ens[r] # "err_pull"

\* C3: when the directory is absent and the clone fails, ensureRepo() fails
\* to whatever waits on it; at startup the process exits with a non-zero
\* status and never listens.
C3_CloneFailureFatal ==
  /\ \A c \in Callers : ens[c] # "swallowed_clone"
  /\ ens[0] = "err_clone" =>
       proc = "exited" /\ exitCode = 1 /\ ~everListening
  /\ \A r \in Req : ens[r] = "err_clone" =>
       req[r].pc = "done" /\ req[r].status = "error"

C3_Witness ==
  /\ ens[0] = "err_clone" /\ proc = "exited" /\ exitCode = 1 /\ dir = "absent"

\* C4: each ensureRepo() call issues one git operation, a clone if and only
\* if the directory is absent and a pull if and only if it is present, and
\* no clone process starts on a directory that exists.  The code clones
\* whenever fs.access rejects and does not re-check when the queued clone
\* starts, so it fails.
C4_CloneIffAbsent ==
  [][\A c \in Callers :
       /\ (ens[c] = "access" /\ ens'[c] # "access") =>
            /\ nOps'[c] = 1
            /\ ens'[c] = "clone_wait" <=> dir = "absent"
            /\ ens'[c] = "pulling" <=> dir # "absent"
       /\ (ens[c] = "clone_wait" /\ ens'[c] # "clone_wait") => dir = "absent"]_vars

Hidden(name) == (Len(name) > 0 /\ name[1] = ".") \/ name = N_node_modules
IsPrefix(a, b) == Len(a) <= Len(b) /\ SubSeq(b, 1, Len(a)) = a
NodeIds(t) == 1..Len(t.nodes)

RECURSIVE PathOf(_, _), Visible(_, _), Beneath(_, _, _)
\* the path of entry i relative to the platform subdirectory
PathOf(t, i) ==
  IF t.nodes[i].parent = 0 THEN t.nodes[i].name
  ELSE PathOf(t, t.nodes[i].parent) \o <<"/">> \o t.nodes[i].name
\* neither entry i nor a directory above it is hidden
Visible(t, i) ==
  /\ ~Hidden(t.nodes[i].name)
  /\ t.nodes[i].parent # 0 => Visible(t, t.nodes[i].parent)
\* entry j lies in the subtree of directory i
Beneath(t, i, j) ==
  /\ t.nodes[j].parent # 0
  /\ t.nodes[j].parent = i \/ Beneath(t, i, t.nodes[j].parent)
\* the string the listing shows for entry i
EntryOf(t, i) == PathOf(t, i) \o (IF t.nodes[i].isDir THEN <<"/">> ELSE <<>>)
PosIn(seq, e) == CHOOSE k \in 1..Len(seq) : seq[k] = e
Listed == treePc = "listed" /\ files.ok

\* C6: getDirectoryStructure returns no entry whose name, or the name of a
\* directory above it, begins with "." or is node_modules.
C6_NoHiddenEntries ==
  Listed =>
    \A k \in 1..Len(files.files) :
      LET segs == split(files.files[k], "/")
      IN \A n \in 1..Len(segs) : ~Hidden(segs[n])

C6_Witness ==
  /\ Listed /\ Len(files.files) >= 1
  /\ \E i, j \in NodeIds(treeIn) :
       /\ treeIn.nodes[i].name \in {N_git, N_node_modules}
       /\ treeIn.nodes[j].parent = i /\ ~Hidden(treeIn.nodes[j].name)

\* C7: the listing is the depth-first pre-order of the visible entries: one
\* string per visible entry, its path relative to the platform subdirectory,
\* a directory's with a trailing "/"; a directory is followed at once by
\* all of its subtree; siblings keep the storage order; a child's string
\* starts with its parent's.
C7_PreOrderListing ==
  Listed =>
    LET t == treeIn
        fs == files.files
        V == {i \in NodeIds(t) : Visible(t, i)}
        pos(i) == PosIn(fs, EntryOf(t, i))
    IN /\ Len(fs) = Cardinality(V)
       /\ \A i \in V : \E k \in 1..Len(fs) : fs[k] = EntryOf(t, i)
       /\ \A i \in V : t.nodes[i].isDir =>
            LET D == {j \in V : Beneath(t, i, j)}
            IN \A j \in D : pos(j) \in (pos(i) + 1)..(pos(i) + Cardinality(D))
       /\ \A i, j \in V :
            (i < j /\ t.nodes[i].parent = t.nodes[j].parent) => pos(i) < pos(j)
       /\ \A i \in V : t.nodes[i].parent # 0 =>
            IsPrefix(EntryOf(t, t.nodes[i].parent), EntryOf(t, i))

C7_Witness ==
  /\ Listed /\ Len(files.files) = 3
  /\ \E i, j, k \in NodeIds(treeIn) :
       /\ treeIn.nodes[i].isDir /\ treeIn.nodes[i].parent = 0
       /\ treeIn.nodes[j].parent = i
       /\ treeIn.nodes[k].parent = 0 /\ i < k /\ k < j
       /\ files.files[1] = EntryOf(treeIn, i)
       /\ files.files[2] = EntryOf(treeIn, j)
       /\ files.files[3] = EntryOf(treeIn, k)

\* C8: when the platform's subdirectory does not exist in the working copy,
\* getDirectoryStructure rejects and returns no list, and the
\* get_boilerplate_structure call is answered with an error; the process
\* keeps running.
C8_MissingSubdirIsToolError ==
  [][\A r \in Req :
       (/\ req[r].kind = "get_boilerplate_structure"
        /\ req[r].pc = "read" /\ req'[r].pc = "done"
        /\ (dir # "present" \/ layout[req[r].platform] = "nodir"))
       => /\ req'[r].status = "error"
          /\ req'[r].listing = <<>>
          /\ req'[r].err = <<"ENOENT">>
          /\ proc' = "listening"]_vars

C8_Witness ==
  \E r \in Req :
    /\ req[r].kind = "get_boilerplate_structure" /\ req[r].pc = "done"
    /\ dir = "present" /\ layout[req[r].platform] = "nodir"
    /\ req[r].status = "error" /\ proc = "listening"

\* ---- AGENTS.md, stated on the tree
DocMissing(t) ==
  \/ ~t.exists
  \/ ~\E i \in NodeIds(t) : /\ t.nodes[i].parent = 0
                             /\ t.nodes[i].name = N_AGENTS_md
                             /\ ~t.nodes[i].isDir

\* C9: readAgentsMd on a missing or unreadable AGENTS.md rejects with an
\* error that carries the I/O error; it never resolves, and so never with "".
C9_MissingDocumentRejects ==
  (treePc = "read" /\ DocMissing(treeIn)) =>
    /\ ~docOut.ok
    /\ Len(docOut.err) = 4
    /\ docOut.err[1] = "Failed to read AGENTS.md for "
    /\ docOut.err[2] \in PlatformSet
    /\ docOut.err[4] \in {"ENOENT", "EISDIR"}

C9_Witness ==
  /\ treePc = "read" /\ treeIn.exists /\ Len(treeIn.nodes) >= 1
  /\ DocMissing(treeIn) /\ ~docOut.ok /\ docOut.err[4] = "ENOENT"

\* ---- the lines of the document, stated by the positions of its newlines
NewlineAt == {i \in 1..Len(content) : content[i] = "\n"}
NumLines == Cardinality(NewlineAt) + 1
NthNewline(k) == CHOOSE i \in NewlineAt : Cardinality({j \in NewlineAt : j < i}) = k - 1
LineText(k) ==
  SubSeq(content,
         IF k = 1 THEN 1 ELSE NthNewline(k - 1) + 1,
         IF k = NumLines THEN Len(content) ELSE NthNewline(k) - 1)
Folded(text) ==
  [i \in 1..Len(text) |->
     CASE text[i] = "A" -> "a" [] text[i] = "G" -> "g" [] text[i] = "M" -> "m"
       [] OTHER -> text[i]]
Contains(text, q) ==
  \E i \in 1..(Len(text) + 1) :
    /\ i + Len(q) - 1 <= Len(text)
    /\ \A j \in 1..Len(q) : text[i + j - 1] = q[j]
MatchingLines == {k \in 1..NumLines : Contains(Folded(LineText(k)), Folded(query))}

\* C10: search reports one match for each line whose lowercased text contains
\* the lowercased query and none for any other line, labelled with the
\* line's number from 1, in ascending order; the count is the number of
\* matching lines.
C10_OneMatchPerMatchingLine ==
  searchPc = "done" =>
    LET b == searchOut.blocks
    IN /\ {b[i].label : i \in 1..Len(b)} = MatchingLines
       /\ Len(b) = Cardinality(MatchingLines)
       /\ searchOut.n = Cardinality(MatchingLines)
       /\ \A i, j \in 1..Len(b) : i < j => b[i].label < b[j].label

C10_Witness ==
  /\ searchPc = "done" /\ searchOut.n = 2 /\ NumLines = 3
  /\ searchOut.blocks[1].label = 1 /\ searchOut.blocks[2].label = 2
  /\ query = <<"A">> /\ content = <<"a", "\n", "A", "\n">>

\* ---- the context window, stated on the lines of the document
\* lines a..b of the document joined by newlines: the characters from the
\* start of line a to the end of line b
LinesText(a, b) ==
  SubSeq(content,
         IF a = 1 THEN 1 ELSE NthNewline(a - 1) + 1,
         IF b = NumLines THEN Len(content) ELSE NthNewline(b) - 1)
Blocks == searchOut.blocks

\* C11: the context of a match at line k of an n-line document is lines
\* max(1, k-2) .. min(n, k+2), in order, joined by newlines; it holds line k
\* and nothing before line 1 or after line n.
C11_ContextWindowClipped ==
  searchPc = "done" =>
    \A i \in 1..Len(Blocks) :
      LET k == Blocks[i].label
          lo == IF k - 2 < 1 THEN 1 ELSE k - 2
          hi == IF k + 2 > NumLines THEN NumLines ELSE k + 2
      IN /\ k \in 1..NumLines
         /\ Blocks[i].context = LinesText(lo, hi)

C11_Witness ==
  /\ searchPc = "done" /\ NumLines = 4 /\ Len(Blocks) = 4
  /\ Blocks[1].label = 1 /\ Blocks[1].context = LinesText(1, 3)
  /\ Blocks[4].label = 4 /\ Blocks[4].context = LinesText(2, 4)
  /\ content = <<"a", "\n", "\n", "\n">>

\* C12 as claimed: on the sample document, "gamma" has one match, at line 3,
\* and its context is lines 1-4 ("alpha\nbeta\nGAMMA\ndelta") without a
\* line 5.  split gives the document a fifth, empty line, and the window
\* takes it, so it fails.
C12_SampleContextLines1To4 ==
  (searchPc = "done" /\ content = SampleDoc /\ query = Q_gamma) =>
    /\ searchOut.n = 1 /\ Len(Blocks) = 1
    /\ Blocks[1].label = 3
    /\ Blocks[1].context = SubSeq(SampleDoc, 1, Len(SampleDoc) - 1)

\* C12 as amended: on the sample document, "gamma" has one match, at line 3,
\* and its context is lines 1-5, the fifth being the empty line after the
\* last newline: the context is the whole document text.
C12_SampleContextLines1To5 ==
  (searchPc = "done" /\ content = SampleDoc /\ query = Q_gamma) =>
    /\ searchOut.n = 1 /\ Len(Blocks) = 1
    /\ Blocks[1].label = 3
    /\ NumLines = 5 /\ LineText(5) = <<>>
    /\ Blocks[1].context = SampleDoc

C12_Witness ==
  /\ searchPc = "done" /\ content = SampleDoc /\ query = Q_gamma
  /\ searchOut.form = "Found" /\ searchOut.n = 1

\* C13: when no line contains the query the result is not an error and its
\* text is the "No matches found" message; the "Found N matches" text is
\* given exactly when a line matches.
C13_NoMatchIsNotAnError ==
  searchPc = "done" =>
    /\ ~searchOut.isError
    /\ searchOut.form = "Found" <=> MatchingLines # {}
    /\ MatchingLines = {} =>
         searchOut.form = "No matches found" /\ Blocks = <<>>

C13_Witness ==
  /\ searchPc = "done" /\ content = SampleDoc /\ query = Q_zzz
  /\ searchOut.form = "No matches found" /\ ~searchOut.isError

\* C14: the empty query is accepted and matches every line that splitting on
\* the newline gives: the count is the number of lines.
C14_EmptyQueryMatchesEveryLine ==
  (searchPc = "done" /\ query = <<>>) =>
    /\ ~searchOut.isError /\ searchOut.form = "Found"
    /\ searchOut.n = NumLines
    /\ {Blocks[i].label : i \in 1..Len(Blocks)} = 1..NumLines

C14_Witness ==
  /\ searchPc = "done" /\ query = <<>> /\ searchOut.n = 3
  /\ content = <<"a", "\n", "b", "\n">>

\* ---- get_all_contexts, stated on the files
Rule == "\n\n---\n\n"
Heading(p) ==
  CASE p = "backend" -> <<"## ", "BACKEND", " AGENTS.md\n\n">>
    [] p = "frontend" -> <<"## ", "FRONTEND", " AGENTS.md\n\n">>
    [] p = "mobile" -> <<"## ", "MOBILE", " AGENTS.md\n\n">>
RuleCount(text) == Cardinality({i \in 1..Len(text) : text[i] = Rule})

\* C15: get_all_contexts reads AGENTS.md once per configured platform, and
\* its text is the sections in configuration order, whatever order the reads
\* settled in: each section the platform's heading and then its whole
\* document, with the rule between consecutive sections only.
C15_SectionsInConfigurationOrder ==
  /\ allPc # "off" => \A p \in PlatformSet : allReads[p] <= 1
  /\ allPc = "resolved" =>
       /\ \A p \in PlatformSet : allReads[p] = 1
       /\ allOut = Heading("backend") \o allDisk["backend"].text \o <<Rule>>
                    \o Heading("frontend") \o allDisk["frontend"].text \o <<Rule>>
                    \o Heading("mobile") \o allDisk["mobile"].text
       /\ RuleCount(allOut) = Len(PLATFORMS) - 1

C15_Witness ==
  /\ allPc = "resolved"
  /\ allSettled = <<"mobile", "backend", "frontend">>
  /\ allDisk["backend"].text = <<"x">>
  /\ allDisk["frontend"].text = <<>>
  /\ allDisk["mobile"].text = <<"y", "\n">>

\* ---- argument validation
PlatformKnown == callArgs.platform.type = "string" /\ callArgs.platform.val \in
                   {"backend", "frontend", "mobile"}
TakesPlatform == callTool \in {"get_boilerplate_structure", "search_best_practices"}

\* C20: a tool call whose platform argument is not a configured platform is
\* refused with an input error: the handler is not run and no path is built
\* from the value.
C20_UnknownPlatformRejected ==
  (TakesPlatform /\ ~PlatformKnown) =>
    /\ ~callRan /\ callTouched = {} /\ callPc # "valid"
    /\ callPc = "done" => callOut.isError /\ callOut.form = "Invalid arguments"

C20_Witness ==
  /\ callPc = "done" /\ callTool = "get_boilerplate_structure"
  /\ callArgs.platform = [type |-> "string", val |-> "desktop"]
  /\ callOut.isError /\ ~callRan

\* ---- the HTTP routes
IsPost(r) == http[r].path = "/mcp" /\ http[r].verb = "POST"

\* C16: every request to /mcp whose verb is not POST is answered with 405
\* and a JSON-RPC error of code -32000, and runs no handler.  Only GET and
\* DELETE have such a route; PUT and PATCH fall through to the 404 page, so
\* it fails.
C16_NonPostIs405 ==
  \A r \in Posts :
    (http[r].pc = "done" /\ http[r].path = "/mcp" /\ http[r].verb # "POST") =>
      /\ http[r].status = 405 /\ http[r].code = -32000
      /\ http[r].body = "jsonrpc error" /\ ~http[r].ran

\* C19: a POST /mcp that meets no failure of its own is answered, whatever
\* other requests do before or meanwhile.  All requests connect to, and
\* close, the one McpServer, so it fails.
C19_RequestsIndependent ==
  \A r \in Posts :
    (IsPost(r) /\ http[r].pc \in {"closing", "done"} /\ ~http[r].fault) =>
      http[r].status = 200 /\ http[r].body = "answer"

\* ---- startup and the life of the process
\* C17: when the repository URL or the clone directory is not configured,
\* startup exits with a non-zero status; no clone or pull is attempted and
\* the server never listens.
C17_MissingConfigExitsBeforeGit ==
  (config.repoUrl = "" \/ config.repoDir = "") =>
    /\ proc \in {"starting", "exited"}
    /\ proc = "exited" => exitCode = 1
    /\ ens[0] = "none" /\ nOps[0] = 0 /\ GitRunning = {}
    /\ ~everListening

C17_Witness ==
  /\ config.repoUrl # "" /\ config.repoDir = ""
  /\ proc = "exited" /\ exitCode = 1 /\ dir = "absent"

\* a request that has ended in a failure
Failed(r) == req[r].pc = "done" /\ req[r].status = "error"

\* C18: once the server listens, no request takes the process down: the
\* process leaves the listening state by SIGINT only, a request that meets
\* a missing directory, a missing document, a failed refresh or a transport
\* failure ends with an error response, and the server still listens then.
C18_RequestsNeverExitTheProcess ==
  [][/\ (proc = "listening" /\ proc' # "listening") =>
          /\ proc' = "exited" /\ exitCode' = 0
     /\ \A r \in Req :
          (req[r].pc # "done" /\ req'[r].pc = "done") =>
            /\ proc' = "listening" /\ exitCode' = -1
            /\ req'[r].status \in {"ok", "error"}
            /\ req'[r].status = "error" <=> req'[r].err # <<>>]_vars

C18_Witness ==
  /\ proc = "listening"
  /\ \E r, t \in Req :
       /\ Failed(r) /\ req[r].kind = "resource" /\ ens[r] = "err_pull"
       /\ Failed(t) /\ req[t].err = <<"Internal server error">>

C22_EnsureEventuallyCompletes ==
  \A c \in Callers : (ens[c] \in InFlight) ~> (ens[c] \notin InFlight)

\* ---- one call at a time
Running == {r \in Req : req[r].pc \in {"ensure", "read"}}

\* C23: calls are processed one at a time: while the handler of one call has
\* started and has not answered, no other call's handler has started.
C23_OneCallAtATime == Cardinality(Running) <= 1

\* ---- no caching of documents
ReadsDocument == {"resource", "search_best_practices", "get_all_contexts"}

\* C24: no document text is kept in the process: every read of an AGENTS.md
\* made for a resource read, a search_best_practices call or a
\* get_all_contexts call takes the text of the commit that is checked out at
\* the moment of the read, so a call made after a refresh has the new text.
C24_ReadsTheWorkingCopy ==
  [][\A r \in Req :
       (/\ req[r].pc = "read" /\ req[r].kind \in ReadsDocument
        /\ req'[r] # req[r] /\ req'[r].kind = req[r].kind
        /\ req'[r].status # "error")
       => /\ dir = "present" /\ wcVer >= 1
          /\ req'[r].ver = wcVer]_vars

\* one call answered with the first commit's text, a refresh, and the next
\* call answered with the second commit's
C24_Witness ==
  /\ req[1].pc = "done" /\ req[1].status = "ok" /\ req[1].ver = 1
  /\ req[1].kind = "search_best_practices"
  /\ req[2].pc = "done" /\ req[2].status = "ok" /\ req[2].ver = 2
  /\ req[2].kind = "get_all_contexts"
  /\ wcVer = 2

\* ---- who writes the working copy
WorkingCopy == <<dir, wcVer, layout>>
GitStep == \E c \in Callers : /\ ens[c] \in {"clone_wait", "cloning", "pulling"}
                              /\ ens'[c] # ens[c]

\* C25: the working copy changes only in a step of a clone or a pull issued
\* by ensureRepo() (or by somebody outside the server: the directory removed
\* by hand, SIGINT killing a clone); the steps in which a handler lists a
\* directory or reads a document leave it as it is; and the server never
\* removes a working copy that is there, not even after a failed refresh.
C25_OnlyRefreshWritesWorkingCopy ==
  [][/\ WorkingCopy' # WorkingCopy => GitStep \/ ExternalRemove \/ Sigint
     /\ \A r \in Req :
          (req[r].pc = "read" /\ req'[r] # req[r] /\ proc' = proc)
          => WorkingCopy' = WorkingCopy
     /\ (dir = "present" /\ dir' # "present") => ExternalRemove]_vars

\* a get_all_contexts call has answered, the pull of a resource read has
\* failed, and the working copy is where it was
C25_Witness ==
  /\ dir = "present" /\ wcVer = 1
  /\ req[1].pc = "done" /\ req[1].kind = "resource" /\ ens[1] = "err_pull"
  /\ req[2].pc = "done" /\ req[2].kind = "get_all_contexts"

\* ---- two calls that find no directory
\* C26: while the clone directory is absent, the existence check and the
\* clone of an ensureRepo() call are one step with respect to other calls: no
\* call decides to clone an absent directory while another call has decided
\* the same and has not cloned yet.
C26_CheckAndCloneAreOneStep ==
  [][\A c \in Callers :
       (dir = "absent" /\ ens[c] = "access" /\ ens'[c] = "clone_wait")
       => \A d \in Callers \ {c} : ens[d] # "clone_wait"]_vars

\* ---- one repository root
\* the platform's subdirectory of the working copy that ensureRepo() keeps
PlatformDirOfClone ==
  [abs |-> TRUE,
   segs |-> pathOut["ensure"].segs \o segmentsOf(pathBase) \o <<pathPlatform>>]

\* C27: whatever REPO_DIR is, relative or absolute, getDirectoryStructure
\* lists the platform's subdirectory of the directory that ensureRepo() clones
\* and pulls, and readAgentsMd reads the AGENTS.md of that same subdirectory.
C27_SameRepositoryRoot ==
  pathDone = PathOps =>
    /\ pathOut["list"] = PlatformDirOfClone
    /\ pathOut["read"] = [PlatformDirOfClone EXCEPT !.segs = @ \o <<"AGENTS.md">>]

\* ---- closing the transports
\* C28: the transport created for a POST /mcp is closed at some time after
\* that request's response has closed, in whichever order handleRequest
\* returned and the response closed, and also when the handler ended in its
\* catch.
C28_TransportEventuallyClosed ==
  \A r \in Posts :
    (http[r].pc = "done" /\ http[r].tr \in {"created", "open"})
      ~> (http[r].tr = "closed")

\* ---- get_all_contexts with a document missing
Unreadable == {p \in PlatformSet : allDisk[p].kind = "nodoc"}
SettledSet == {allSettled[i] : i \in 1..Len(allSettled)}
FirstUnreadable ==
  allSettled[CHOOSE i \in 1..Len(allSettled) :
               /\ allSettled[i] \in Unreadable
               /\ \A j \in 1..(i - 1) : allSettled[j] \notin Unreadable]

\* C29: get_all_contexts is all or nothing: as soon as the read of one
\* platform's AGENTS.md has failed the call has failed, with the error of
\* that read and with no section of any platform in it, however many of the
\* other reads succeeded before or after; the call resolves with text only
\* when every platform's document was read.
C29_AllOrNothing ==
  /\ allPc = "resolved" => Unreadable = {}
  /\ (allPc # "off" /\ SettledSet \cap Unreadable # {}) =>
       /\ allPc = "rejected"
       /\ allOut = <<"Failed to read AGENTS.md for ", FirstUnreadable, ": ",
                     "ENOENT">>
       /\ \A p \in PlatformSet : \A i \in 1..Len(allOut) :
            allOut[i] # Heading(p)[1] /\ allOut[i] # toUpperCase(p)

\* two documents were read, before and after the read that failed
C29_Witness ==
  /\ allPc = "rejected"
  /\ allSettled = <<"backend", "mobile", "frontend">>
  /\ allDisk["backend"].kind = "doc" /\ allDisk["backend"].text = <<"x">>
  /\ allDisk["mobile"].kind = "nodoc"
  /\ allDisk["frontend"].kind = "doc" /\ allDisk["frontend"].text = <<"y", "\n">>
====
